---- MODULE Spec2Model ----
(***************************************************************************)
(* The race scene of GameCanvas (src/unnamed/part_001): the race state the *)
(* scene callbacks close over, the checkpoint overlap callback, the update *)
(* callback, the countdown timer, finishRace, handlePause, handleRestart   *)
(* and the useEffect that builds and destroys the Phaser game, with the     *)
(* SocketManager (src/src/lib/socket.ts) the multiplayer sends go through.  *)
(*                                                                         *)
(* Times are in milliseconds.  finishRace's finalTime = raceTime / 1000 is *)
(* carried as its numerator raceTime: division by 1000 over the reals is   *)
(* injective, so two records agree on finalTime iff they agree on it.      *)
(*                                                                         *)
(* Indices are 0-based as in the source: checkpoints[i] of the source is   *)
(* checkpoints[i + 1] here.                                                *)
(***************************************************************************)
EXTENDS Integers, Sequences, FiniteSets, TLC

VARIABLES
    \* ---- React component (props and state) ------------------------------
    gameMode,           \* prop gameMode: "single" | "multiplayer"
    isPaused,           \* useState isPaused
    gameLoaded,         \* useState gameLoaded
    sameRender,         \* TRUE iff the handlers on screen (handlePause,
                        \* handleRestart) belong to the render whose
                        \* bindings the scene callbacks closed over
    \* ---- bindings of the render that built the Phaser game --------------
    isPausedSeen,       \* the isPaused value that render's update() reads
    raceStarted,
    raceTime,
    checkpoints,        \* sequence of [pos, scene]: scene = the scene run
                        \* that created the rectangle
    aiCars,             \* sequence of [scene]
    currentCheckpoint,
    lapCount,
    maxLaps,
    numPositions,       \* checkpointPositions.length
    \* ---- Phaser and the browser ----------------------------------------
    sceneStatus,        \* "booting" | "running" | "paused"
    closure,            \* which useEffect run built the current game
    session,            \* which run of create() built the current scene
    timers,             \* pending setTimeout callbacks: [closure, session, due]
    now,                \* wall clock
    inside,             \* position (1..numPositions) of the checkpoint region
                        \* the player rectangle overlaps, 0 for none
    rotation,           \* player.rotation, in steps of 0.1 rad
    velocity,           \* the player body's velocity: [speed, heading, drag]
    socket,             \* SocketManager.socket: "null" | "connecting" | "connected"
    \* ---- history (not read by the program) ------------------------------
    entries,            \* in-order checkpoint entries since the race
                        \* counters were last initialised
    finishCount,        \* runs of finishRace since the race counters were
                        \* last initialised
    startCount,         \* raceStarted false -> true steps in the session
    createdAt,          \* clock value when create() built the session
    occAdvances,        \* advances of currentCheckpoint in this occupancy
    lapToasts,          \* lap toasts since the race counters were last initialised
    finishToasts,       \* finish toasts since then
    finishSends,        \* socketManager.finishRace calls since then
    restarts,
    modeChanges,
    emitted,            \* what the last step emitted (toasts, onGameEnd, sends)
    positionSent,       \* the player-position sends of the last step
    aiStep,             \* what the last step's update() did to the AI cars
    last,               \* the overlap callback's last call (index, expected index),
                        \* or NoOp when the last step was another operation
    tries,              \* failed opens of this.socket since it started connecting
    orphans,            \* sockets still alive that this.socket no longer refers to
    reconnectAttempts,  \* SocketManager.reconnectAttempts
    callResult,         \* what the last direct SocketManager call did
    hub,                \* TournamentHub: its state, its calls in flight, the server
    board,              \* Leaderboard: its state and its fetches in flight
    auth                \* AuthForm: its state and its auth call in flight

gameVars == <<gameMode, isPaused, gameLoaded, sameRender, isPausedSeen, raceStarted,
          raceTime, checkpoints, aiCars, currentCheckpoint, lapCount, maxLaps,
          numPositions, sceneStatus, closure, session, timers, now, inside,
          entries, finishCount, startCount, createdAt, occAdvances, restarts,
          modeChanges, emitted, last, rotation, velocity, socket, lapToasts,
          finishToasts, finishSends, positionSent, aiStep>>

gameVarsButSocket ==
    <<gameMode, isPaused, gameLoaded, sameRender, isPausedSeen, raceStarted,
      raceTime, checkpoints, aiCars, currentCheckpoint, lapCount, maxLaps,
      numPositions, sceneStatus, closure, session, timers, now, inside,
      entries, finishCount, startCount, createdAt, occAdvances, restarts,
      modeChanges, emitted, last, rotation, velocity, lapToasts,
      finishToasts, finishSends, positionSent, aiStep>>
mgrVars == <<tries, orphans, reconnectAttempts, callResult>>
appVars == <<hub, board, auth>>
vars == <<gameVars, mgrVars, appVars>>

propsVars == <<gameMode, isPaused, gameLoaded, sameRender, isPausedSeen>>
raceVars == <<raceStarted, raceTime, currentCheckpoint, lapCount>>
trackVars == <<checkpoints, aiCars, maxLaps, numPositions>>
histVars == <<entries, finishCount, startCount, createdAt, occAdvances>>
playerVars == <<rotation, velocity>>
countVars == <<lapToasts, finishToasts, finishSends>>

\* ---- program constants ---------------------------------------------------
TrackLength == 5
LapTarget == 3
CountdownMs == 3000
AiCount == 3
Thrust == 300
Brake == 150
ReconnectionAttempts == 5
AiBaseSpeed == 200
AiSpeedStep == 20
MaxVelocity == 300

\* ---- bounds of the model -------------------------------------------------
DeltaMs == 1000
MaxClock == 4000
MaxLapCount == 4
MaxRestarts == 1
MaxModeChanges == 1
MaxTrack == 3
MaxTarget == 2
MaxTurn == 1
MaxDriveClock == 6000
SlowFrame == 2
MaxOrphans == 1
MaxParticipants == 2
MaxFetches == 3
MaxJoins == 2
MaxCreates == 1
MaxBoardFetches == 3
MaxRaces == 1
MaxAuthCalls == 3
MaxAttempts == 7

GameModes == {"single", "multiplayer"}

\* ---- events ---------------------------------------------------------------
\* One emission: a toast, the onGameEnd record or a socket send, with the lap
\* count when it is made and the time value it carries.
Event(type, laps, time) == [type |-> type, laps |-> laps, time |-> time]

Op(op, index, expected) == [op |-> op, index |-> index, expected |-> expected]

\* Every operation but the overlap callback leaves this in last.
NoOp == Op("other", 0, 0)

\* ---- the player body and the socket ----------------------------------------
\* A velocity is speed * (cos(a), sin(a)) with a = 0.1 * heading - PI / 2, after
\* drag milliseconds of the Arcade world step's drag (setDrag(100), applied
\* per axis).  Velocities set from different headings or with different speeds
\* are different vectors; the body at rest is ZeroVelocity.
Velocity(speed, heading) == [speed |-> speed, heading |-> heading, drag |-> 0]

ZeroVelocity == Velocity(0, 0)

\* The Arcade world step of one frame, which runs before update().
WorldStep(v, delta) == IF v.speed = 0 THEN v ELSE [v EXCEPT !.drag = @ + delta]

\* cursors.left/right/up/down.isDown on one frame.
Keys == [left : BOOLEAN, right : BOOLEAN, up : BOOLEAN, down : BOOLEAN]

NoKeys == [left |-> FALSE, right |-> FALSE, up |-> FALSE, down |-> FALSE]

\* get connected() { return this.socket?.connected || false }
Connected(sock) == sock = "connected"

\* connect(): if (this.socket?.connected) return; this.socket = io(...)
Connect(sock) == IF Connected(sock) THEN sock ELSE "connecting"

\* A connecting socket the manager lets go of stays alive: nothing closes it.
Orphaned(sock, n, orph) ==
    IF sock = "connecting" THEN Append(orph, [state |-> sock, tries |-> n]) ELSE orph

\* connect() as a whole: this.socket = io(serverUrl, {autoConnect: true, ...})
\* unless the current socket is connected.
ManagerConnect ==
    /\ socket' = Connect(socket)
    /\ tries' = (IF Connected(socket) THEN tries ELSE 0)
    /\ orphans' = Orphaned(socket, tries, orphans)

\* The sockets that are open or connecting.
AliveSockets == (IF socket \in {"connecting", "connected"} THEN 1 ELSE 0) + Len(orphans)

\* Variant: this.socket.emit(...) without the optional chaining.
EmitUnguarded(sock) ==
    IF sock = "null" THEN "error" ELSE IF Connected(sock) THEN "sent" ELSE "buffered"

\* this.socket?.emit(event, data): nothing without a socket; a socket that is
\* not connected buffers the packet.
Emit(sock) ==
    IF sock = "null" THEN "none" ELSE IF Connected(sock) THEN "sent" ELSE "buffered"

\* this.socket?.on(event, callback)
On(sock) == IF sock = "null" THEN "none" ELSE "registered"

\* The emit wrappers and the on* wrappers of SocketManager.
SendOps == {"joinRoom", "leaveRoom", "createRace", "joinRace", "startRace",
            "sendPlayerPosition", "finishRace", "createTournament", "joinTournament"}
SubscribeOps == {"onRaceCreated", "onRaceJoined", "onRaceStarted",
                 "onPlayerPositionUpdate", "onRaceFinished", "onTournamentUpdate"}

\* No direct call of the manager in the last step.
NoCall == [op |-> "none", effect |-> "none"]

\* socketManager.sendPlayerPosition('current-race', {x, y, rotation, speed}):
\* the position is not modelled, and the speed (the length of the body's
\* velocity) is carried as that velocity.
Position(rot, v) == [rotation |-> rot, velocity |-> v]

\* A step that sends no position.
NoSend == <<>>

\* A step in which update() does not reach its AI loop.
NoAi == [ran |-> FALSE, set |-> <<>>, error |-> FALSE]

\* The length of a velocity: |speed| * sqrt(cos(a)^2 + sin(a)^2) = |speed|,
\* before any drag.
Magnitude(v) == IF v.speed < 0 THEN 0 - v.speed ELSE v.speed

\* ---- create(): lines 99-209 ------------------------------------------------
\* checkpointPositions.forEach(... checkpoints.push(checkpoint)): the new
\* rectangles are appended to whatever the array already holds.
PushCheckpoints(cps, n, s) == cps \o [i \in 1..n |-> [pos |-> i, scene |-> s]]

\* if (gameMode === 'single') for (i < 3) aiCars.push(aiCar)
PushAiCars(cars, mode, s) ==
    IF mode = "single" THEN cars \o [i \in 1..AiCount |-> [scene |-> s]] ELSE cars

\* setTimeout(() => { raceStarted = true; toast(...) }, 3000)
ArmCountdown(ts, c, s, t) == ts \cup {[closure |-> c, session |-> s, due |-> t + CountdownMs]}

\* The body of create(), run by Phaser when the scene starts and again on
\* every scene restart.  It assigns none of raceStarted, raceTime,
\* currentCheckpoint, lapCount.
CreateScene ==
    /\ session' = session + 1
    /\ checkpoints' = PushCheckpoints(checkpoints, numPositions, session + 1)
    /\ aiCars' = PushAiCars(aiCars, gameMode, session + 1)
    /\ gameLoaded' = TRUE
    /\ timers' = ArmCountdown(timers, closure, session + 1, now)
    /\ sceneStatus' = "running"
    /\ inside' = 0
    /\ rotation' = 0
    /\ velocity' = ZeroVelocity
    /\ createdAt' = now
    /\ startCount' = 0
    /\ occAdvances' = 0

\* The first run of create() after new Phaser.Game(config).  setGameLoaded(true)
\* re-renders the component when it changes gameLoaded; the handlers on screen
\* then belong to a later render than the scene callbacks.
Create ==
    /\ sceneStatus = "booting"
    /\ CreateScene
    /\ sameRender' = (sameRender /\ gameLoaded)
    /\ emitted' = <<>>
    /\ positionSent' = NoSend
    /\ aiStep' = NoAi
    /\ last' = NoOp
    /\ UNCHANGED <<gameMode, isPaused, isPausedSeen, raceVars, maxLaps, numPositions,
                   closure, now, entries, finishCount, restarts, modeChanges,
                   socket, countVars>>
    /\ UNCHANGED <<mgrVars, appVars>>

\* ---- the checkpoint overlap callback: lines 171-188 -----------------------
\* Variant: any checkpoint at or past the expected one counts (a shortcut).
ExpectedOrLater(index, cc) == index >= cc

\* if (index === currentCheckpoint)
Expected(index, cc) == index = cc

\* Variant: the index is advanced without the modulo.
NextCheckpointNoWrap(cc, n) == cc + 1

\* Variant: the index is advanced by two.
NextCheckpointSkip(cc, n) == (cc + 2) % n

\* currentCheckpoint = (currentCheckpoint + 1) % checkpoints.length
NextCheckpoint(cc, n) == (cc + 1) % n

\* Variant: the lap is counted one checkpoint late.
LapDoneEarly(cc) == cc = 1

\* if (currentCheckpoint === 0)
LapDone(cc) == cc = 0

\* Variant: the comparison is strict.
ReachedTargetLate(laps, target) == laps > target

\* if (lapCount >= maxLaps)
ReachedTarget(laps, target) == laps >= target

\* (raceTime / 1000).toFixed(2): seconds with two decimals, carried as
\* hundredths of a second rounded to the nearest.
ToFixed2(ms) == (ms + 5) \div 10

\* Variant: the race result is delivered before the finish toast.
FinishRaceResultFirst(laps, time, mode) ==
    <<Event("gameEnd", laps, time), Event("finishToast", laps, ToFixed2(time))>>
    \o (IF mode = "multiplayer" THEN <<Event("raceFinishSend", laps, time)>> ELSE <<>>)

\* finishRace(): lines 264-284.  raceStarted = false; the finish toast; the
\* race-result record to onGameEnd; in multiplayer the race-finish send.
FinishRaceEvents(laps, time, mode) ==
    <<Event("finishToast", laps, ToFixed2(time)), Event("gameEnd", laps, time)>>
    \o (IF mode = "multiplayer" THEN <<Event("raceFinishSend", laps, time)>> ELSE <<>>)

OverlapCallback(index) ==
    LET hit == Expected(index, currentCheckpoint)
        cc == IF hit THEN NextCheckpoint(currentCheckpoint, Len(checkpoints))
              ELSE currentCheckpoint
        lapDone == hit /\ LapDone(cc)
        laps == IF lapDone THEN lapCount + 1 ELSE lapCount
        fin == lapDone /\ ReachedTarget(laps, maxLaps)
    IN  /\ currentCheckpoint' = cc
        /\ lapCount' = laps
        /\ raceStarted' = (IF fin THEN FALSE ELSE raceStarted)
        /\ raceTime' = raceTime
        /\ emitted' = (IF lapDone THEN <<Event("lapToast", laps, ToFixed2(raceTime))>>
                       ELSE <<>>)
                      \o (IF fin THEN FinishRaceEvents(laps, raceTime, gameMode) ELSE <<>>)
        /\ finishCount' = (IF fin THEN finishCount + 1 ELSE finishCount)
        /\ lapToasts' = (IF lapDone THEN lapToasts + 1 ELSE lapToasts)
        /\ finishToasts' = (IF fin THEN finishToasts + 1 ELSE finishToasts)
        /\ finishSends' = (IF fin /\ gameMode = "multiplayer" THEN finishSends + 1
                           ELSE finishSends)
        /\ entries' = (IF hit THEN entries + 1 ELSE entries)
        /\ occAdvances' = (IF hit THEN occAdvances + 1 ELSE occAdvances)
        /\ last' = Op("Overlap", index, currentCheckpoint)

\* Variant: pausing only flips the flag and the scene keeps stepping.
SceneActiveUnlessBooting(status) == status # "booting"

\* Phaser steps a scene (physics world step, then update()) only while it is
\* running: scene.pause stops both until scene.resume.
SceneActive(status) == status = "running"

\* scene.physics.add.overlap(player, checkpoint, cb) is registered for every
\* element of checkpoints, but a rectangle of an earlier scene run was
\* destroyed with that scene and has no body: only the rectangles of the
\* current run can overlap the player.
LiveIndices(p) ==
    {i - 1 : i \in {j \in 1..Len(checkpoints) :
                        checkpoints[j].pos = p /\ checkpoints[j].scene = session}}

\* One physics step with the player inside a checkpoint region.
Overlap ==
    /\ SceneActive(sceneStatus)
    /\ inside # 0
    /\ lapCount < MaxLapCount
    /\ \E index \in LiveIndices(inside) : OverlapCallback(index)
    /\ positionSent' = NoSend
    /\ aiStep' = NoAi
    /\ UNCHANGED <<propsVars, trackVars, sceneStatus, closure, session, timers, now,
                   inside, startCount, createdAt, restarts, modeChanges, playerVars,
                   socket>>
    /\ UNCHANGED <<mgrVars, appVars>>

\* The player rectangle moves into, or out of, a checkpoint region.
Enter(p) ==
    /\ sceneStatus = "running"
    /\ inside = 0
    /\ inside' = p
    /\ occAdvances' = 0
    /\ emitted' = <<>>
    /\ positionSent' = NoSend
    /\ aiStep' = NoAi
    /\ last' = NoOp
    /\ UNCHANGED <<propsVars, raceVars, trackVars, sceneStatus, closure, session, timers,
                   now, entries, finishCount, startCount, createdAt, restarts, modeChanges,
                   playerVars, socket, countVars>>
    /\ UNCHANGED <<mgrVars, appVars>>

Leave ==
    /\ sceneStatus = "running"
    /\ inside # 0
    /\ inside' = 0
    /\ occAdvances' = 0
    /\ emitted' = <<>>
    /\ positionSent' = NoSend
    /\ aiStep' = NoAi
    /\ last' = NoOp
    /\ UNCHANGED <<propsVars, raceVars, trackVars, sceneStatus, closure, session, timers,
                   now, entries, finishCount, startCount, createdAt, restarts, modeChanges,
                   playerVars, socket, countVars>>
    /\ UNCHANGED <<mgrVars, appVars>>

\* ---- the countdown callback: lines 202-208 --------------------------------
\* raceStarted = true is an assignment to the binding of the render that armed
\* the timer; the toast is global.  Nothing cancels the timer.
TimerFire(t) ==
    /\ t.due <= now
    /\ timers' = timers \ {t}
    /\ raceStarted' = (IF t.closure = closure THEN TRUE ELSE raceStarted)
    /\ startCount' = (IF t.closure = closure /\ ~raceStarted THEN startCount + 1
                      ELSE startCount)
    /\ emitted' = <<Event("startToast", lapCount, raceTime)>>
    /\ positionSent' = NoSend
    /\ aiStep' = NoAi
    /\ last' = NoOp
    /\ UNCHANGED <<propsVars, raceTime, currentCheckpoint, lapCount, trackVars,
                   sceneStatus, closure, session, now, inside, entries, finishCount,
                   createdAt, occAdvances, restarts, modeChanges, playerVars, socket,
                   countVars>>
    /\ UNCHANGED <<mgrVars, appVars>>

\* ---- update(time, delta): lines 211-262 -----------------------------------
\* if (!raceStarted || isPaused) return; raceTime += delta
UpdateGate(started, paused) == started /\ ~paused

\* if (left.isDown) player.rotation -= 0.1; if (right.isDown) player.rotation += 0.1
\* (two separate ifs: with both keys down the two steps cancel).
Turn(rot, keys) ==
    rot - (IF keys.left THEN 1 ELSE 0) + (IF keys.right THEN 1 ELSE 0)

\* Variant: the car stops when neither up nor down is held.
DriveOrStop(v, rot, keys) ==
    IF keys.down THEN Velocity(0 - Brake, rot)
    ELSE IF keys.up THEN Velocity(Thrust, rot)
    ELSE ZeroVelocity

\* Variant: the thrust and the brake are added to the speed the car has.
DriveAccumulate(v, rot, keys) ==
    IF keys.down THEN Velocity(v.speed - Brake, rot)
    ELSE IF keys.up THEN Velocity(v.speed + Thrust, rot)
    ELSE v

\* if (up.isDown) setVelocity(cos(a) * 300, sin(a) * 300);
\* if (down.isDown) setVelocity(cos(a) * -150, sin(a) * -150), with
\* a = player.rotation - PI / 2 after the turn: the brake, tested last, wins.
Drive(v, rot, keys) ==
    IF keys.down THEN Velocity(0 - Brake, rot)
    ELSE IF keys.up THEN Velocity(Thrust, rot)
    ELSE v

\* Variant: the position is sent whenever the game is multiplayer.
SendGateAnyChannel(mode, conn) == mode = "multiplayer"

\* if (gameMode === 'multiplayer' && socketManager.connected)
SendGate(mode, conn) == mode = "multiplayer" /\ conn

\* const speed = 200 + (index * 20)
AiSpeed(index) == AiBaseSpeed + index * AiSpeedStep

\* The 1-based place in cars of the first car the forEach body throws on, or
\* Len(cars) + 1 when it runs through: checkpoints[currentCheckpoint] is
\* undefined (targetCheckpoint.x throws), or the car is of an earlier scene
\* run and was destroyed with it (aiCar.body is undefined and
\* aiBody.setVelocity throws).
AiFirstThrow(cars, cps, cc, sess) ==
    LET bad == {i \in 1..Len(cars) : cc + 1 > Len(cps) \/ cars[i].scene # sess}
    IN  IF bad = {} THEN Len(cars) + 1 ELSE CHOOSE i \in bad : \A j \in bad : i <= j

\* if (gameMode === 'single') aiCars.forEach((aiCar, index) => ...): each car
\* is pointed at checkpoints[currentCheckpoint] and given its speed along that
\* bearing, until the body throws.
AiDrive(mode, cars, cps, cc, sess) ==
    IF mode # "single" THEN NoAi
    ELSE LET stop == AiFirstThrow(cars, cps, cc, sess)
         IN  [ran |-> TRUE,
              set |-> [i \in 1..(stop - 1) |->
                         [car |-> cars[i], target |-> cps[cc + 1],
                          speed |-> AiSpeed(i - 1)]],
              error |-> stop <= Len(cars)]

\* update() on a body whose velocity the world step left at v.  An exception
\* in the AI loop ends the call before the position send.
Update(delta, keys, v) ==
    IF UpdateGate(raceStarted, isPausedSeen)
    THEN LET rot == Turn(rotation, keys)
             vel == Drive(v, rot, keys)
             ai == AiDrive(gameMode, aiCars, checkpoints, currentCheckpoint, session)
         IN  /\ raceTime' = raceTime + delta
             /\ rotation' = rot
             /\ velocity' = vel
             /\ aiStep' = ai
             /\ positionSent' = (IF ~ai.error /\ SendGate(gameMode, Connected(socket))
                                 THEN <<Position(rot, vel)>> ELSE NoSend)
    ELSE /\ raceTime' = raceTime
         /\ rotation' = rotation
         /\ velocity' = v
         /\ aiStep' = NoAi
         /\ positionSent' = NoSend

\* One frame of the game loop with the cursor keys as given: delta of
\* wall-clock time passes and, when the scene is running, Phaser steps the
\* physics world and calls update(time, delta).  A due timer runs before the
\* clock moves on.  The clock stops at limit.
Tick(keys, delta, limit) ==
    /\ now + delta <= limit
    /\ \A t \in timers : t.due > now
    /\ now' = now + delta
    /\ IF SceneActive(sceneStatus)
       THEN Update(delta, keys, WorldStep(velocity, delta))
       ELSE /\ UNCHANGED <<raceTime, playerVars>>
            /\ positionSent' = NoSend
            /\ aiStep' = NoAi
    /\ rotation' \in (0 - MaxTurn)..MaxTurn
    /\ emitted' = <<>>
    /\ last' = NoOp
    /\ UNCHANGED <<propsVars, raceStarted, currentCheckpoint, lapCount, trackVars,
                   sceneStatus, closure, session, timers, inside, histVars, restarts,
                   modeChanges, socket, countVars>>
    /\ UNCHANGED <<mgrVars, appVars>>

\* A frame of the usual length.
FrameTo(keys, limit) == Tick(keys, DeltaMs, limit)

Frame(keys) == FrameTo(keys, MaxClock)

\* ---- handlePause: lines 286-295 -------------------------------------------
\* scene.pause acts on a running scene and scene.resume on a paused one.
PauseOrResume(paused, status) ==
    IF paused THEN (IF status = "paused" THEN "running" ELSE status)
    ELSE (IF status = "running" THEN "paused" ELSE status)

HandlePause ==
    /\ isPaused' = ~isPaused
    /\ sceneStatus' = PauseOrResume(isPaused, sceneStatus)
    /\ sameRender' = FALSE
    /\ emitted' = <<>>
    /\ positionSent' = NoSend
    /\ aiStep' = NoAi
    /\ last' = NoOp
    /\ UNCHANGED <<gameMode, gameLoaded, isPausedSeen, raceVars, trackVars, closure,
                   session, timers, now, inside, histVars, restarts, modeChanges,
                   playerVars, socket, countVars>>
    /\ UNCHANGED <<mgrVars, appVars>>

\* ---- handleRestart: lines 297-306 -----------------------------------------
\* scene.restart() runs create() again on the same closure.  The four
\* assignments are to the bindings of the render the handler belongs to: they
\* reach the scene's bindings only when that is the render that built the game.
ResetByRestart(shared, old, initial) == IF shared THEN initial ELSE old

HandleRestart ==
    /\ restarts < MaxRestarts
    /\ restarts' = restarts + 1
    /\ IF sceneStatus = "booting"
       THEN UNCHANGED <<session, checkpoints, aiCars, gameLoaded, timers, sceneStatus,
                        inside, createdAt, startCount, occAdvances, playerVars>>
       ELSE CreateScene
    /\ isPaused' = FALSE
    /\ sameRender' = (sameRender /\ ~isPaused)
    /\ raceStarted' = ResetByRestart(sameRender, raceStarted, FALSE)
    /\ raceTime' = ResetByRestart(sameRender, raceTime, 0)
    /\ currentCheckpoint' = ResetByRestart(sameRender, currentCheckpoint, 0)
    /\ lapCount' = ResetByRestart(sameRender, lapCount, 0)
    /\ entries' = ResetByRestart(sameRender, entries, 0)
    /\ finishCount' = ResetByRestart(sameRender, finishCount, 0)
    /\ lapToasts' = ResetByRestart(sameRender, lapToasts, 0)
    /\ finishToasts' = ResetByRestart(sameRender, finishToasts, 0)
    /\ finishSends' = ResetByRestart(sameRender, finishSends, 0)
    /\ emitted' = <<>>
    /\ positionSent' = NoSend
    /\ aiStep' = NoAi
    /\ last' = NoOp
    /\ UNCHANGED <<gameMode, isPausedSeen, maxLaps, numPositions, closure, now,
                   modeChanges, socket>>
    /\ UNCHANGED <<mgrVars, appVars>>

\* ---- re-render -------------------------------------------------------------
\* Any later render of the component (a parent render, a toast state change)
\* gives the buttons handlers over fresh bindings.
Rerender ==
    /\ sameRender
    /\ sameRender' = FALSE
    /\ emitted' = <<>>
    /\ positionSent' = NoSend
    /\ aiStep' = NoAi
    /\ last' = NoOp
    /\ UNCHANGED <<gameMode, isPaused, gameLoaded, isPausedSeen, raceVars, trackVars,
                   sceneStatus, closure, session, timers, now, inside, histVars,
                   restarts, modeChanges, playerVars, socket, countVars>>
    /\ UNCHANGED <<mgrVars, appVars>>

\* ---- useEffect([gameMode]): lines 21-63 -----------------------------------
\* The prop changes: the cleanup destroys the game, and the effect of the new
\* render builds a new one over that render's fresh bindings.  Timers armed
\* by the old closure stay pending.  In multiplayer the effect calls
\* socketManager.connect(); the cleanup never disconnects.
ModeChange(m) ==
    /\ modeChanges < MaxModeChanges
    /\ m # gameMode
    /\ modeChanges' = modeChanges + 1
    /\ gameMode' = m
    /\ closure' = closure + 1
    /\ sameRender' = TRUE
    /\ isPausedSeen' = isPaused
    /\ raceStarted' = FALSE
    /\ raceTime' = 0
    /\ checkpoints' = <<>>
    /\ aiCars' = <<>>
    /\ currentCheckpoint' = 0
    /\ lapCount' = 0
    /\ sceneStatus' = "booting"
    /\ inside' = 0
    /\ entries' = 0
    /\ finishCount' = 0
    /\ startCount' = 0
    /\ createdAt' = now
    /\ occAdvances' = 0
    /\ rotation' = 0
    /\ velocity' = ZeroVelocity
    /\ lapToasts' = 0
    /\ finishToasts' = 0
    /\ finishSends' = 0
    /\ emitted' = <<>>
    /\ positionSent' = NoSend
    /\ aiStep' = NoAi
    /\ last' = NoOp
    /\ UNCHANGED <<isPaused, gameLoaded, maxLaps, numPositions, session, timers, now,
                   restarts>>
    /\ IF m = "multiplayer"
       THEN /\ Len(orphans) < MaxOrphans \/ socket # "connecting"
            /\ ManagerConnect
       ELSE UNCHANGED <<socket, tries, orphans>>
    /\ UNCHANGED <<reconnectAttempts, callResult, appVars>>

\* ---- socket events: src/src/lib/socket.ts lines 14-47 ----------------------
\* The socket's 'connect' event: the handshake of a connecting socket succeeds.
SocketOpen ==
    /\ socket = "connecting"
    /\ socket' = "connected"
    /\ emitted' = <<>>
    /\ positionSent' = NoSend
    /\ aiStep' = NoAi
    /\ last' = NoOp
    /\ UNCHANGED <<propsVars, raceVars, trackVars, sceneStatus, closure, session, timers,
                   now, inside, histVars, restarts, modeChanges, playerVars, countVars>>
    /\ tries' = 0
    /\ reconnectAttempts' = 0
    /\ callResult' = NoCall
    /\ UNCHANGED <<orphans, appVars>>

\* The socket's 'disconnect' event: the connection drops and the socket
\* (reconnection: true) goes back to connecting.
SocketClose ==
    /\ socket = "connected"
    /\ socket' = "connecting"
    /\ emitted' = <<>>
    /\ positionSent' = NoSend
    /\ aiStep' = NoAi
    /\ last' = NoOp
    /\ UNCHANGED <<propsVars, raceVars, trackVars, sceneStatus, closure, session, timers,
                   now, inside, histVars, restarts, modeChanges, playerVars, countVars>>
    /\ tries' = 1
    /\ callResult' = NoCall
    /\ UNCHANGED <<orphans, reconnectAttempts, appVars>>

\* The socket's 'connect_error' event: an attempt to open failed.  With
\* reconnection: true the socket tries again, reconnectionAttempts times; then
\* it gives up and is closed.
SocketError ==
    /\ socket = "connecting"
    /\ reconnectAttempts < MaxAttempts
    /\ reconnectAttempts' = reconnectAttempts + 1
    /\ IF tries < ReconnectionAttempts
       THEN /\ tries' = tries + 1
            /\ socket' = socket
       ELSE /\ tries' = tries
            /\ socket' = "closed"
    /\ callResult' = NoCall
    /\ UNCHANGED <<gameVarsButSocket, orphans, appVars>>

\* The same three events on a socket the manager no longer refers to: its
\* listeners still write the manager's reconnectAttempts.
OrphanOpen(i) ==
    /\ orphans[i].state = "connecting"
    /\ orphans' = [orphans EXCEPT ![i] = [state |-> "connected", tries |-> 0]]
    /\ reconnectAttempts' = 0
    /\ callResult' = NoCall
    /\ UNCHANGED <<gameVars, tries, appVars>>

OrphanClose(i) ==
    /\ orphans[i].state = "connected"
    /\ orphans' = [orphans EXCEPT ![i] = [state |-> "connecting", tries |-> 1]]
    /\ callResult' = NoCall
    /\ UNCHANGED <<gameVars, tries, reconnectAttempts, appVars>>

OrphanError(i) ==
    /\ orphans[i].state = "connecting"
    /\ reconnectAttempts < MaxAttempts
    /\ reconnectAttempts' = reconnectAttempts + 1
    /\ orphans' = (IF orphans[i].tries < ReconnectionAttempts
                   THEN [orphans EXCEPT ![i].tries = @ + 1]
                   ELSE [j \in 1..(Len(orphans) - 1) |->
                            IF j < i THEN orphans[j] ELSE orphans[j + 1]])
    /\ callResult' = NoCall
    /\ UNCHANGED <<gameVars, tries, appVars>>

\* ---- SocketManager calls: src/src/lib/socket.ts lines 8-25, 49-125 ----------
\* socketManager.connect()
ConnectCall ==
    /\ Len(orphans) < MaxOrphans \/ socket # "connecting"
    /\ ManagerConnect
    /\ callResult' = [op |-> "connect", effect |-> "none"]
    /\ UNCHANGED <<gameVarsButSocket, reconnectAttempts, appVars>>

\* disconnect() { this.socket?.disconnect(); this.socket = null }
DisconnectCall ==
    /\ socket' = "null"
    /\ tries' = 0
    /\ callResult' = [op |-> "disconnect", effect |-> "none"]
    /\ UNCHANGED <<gameVarsButSocket, orphans, reconnectAttempts, appVars>>

\* One of the emit wrappers.
SendCall(op) ==
    /\ callResult' = [op |-> op, effect |-> Emit(socket)]
    /\ UNCHANGED <<gameVars, tries, orphans, reconnectAttempts, appVars>>

\* One of the on* wrappers.
SubscribeCall(op) ==
    /\ callResult' = [op |-> op, effect |-> On(socket)]
    /\ UNCHANGED <<gameVars, tries, orphans, reconnectAttempts, appVars>>

\* ---- TournamentHub: src/src/components/Tournament/TournamentHub.tsx ---------
\* The signed-in user and the other players.
UserId == "me"
Others == {"p1", "p2"}

\* A tournament as a row of the tournaments table.
Tournament(ps) == [participants |-> ps, max_participants |-> MaxParticipants,
                   status |-> "upcoming"]

\* The rows handleJoinTournament can be handed.
Tournaments == {Tournament(ps) : ps \in SUBSET (Others \cup {UserId})}

\* A request before its response: the server has not answered yet.
Request(n) == [no |-> n, state |-> "sent", data |-> <<>>]

\* The component after mount: useState([]), loading, and the effect's first
\* fetchTournaments() in flight.  The table holds one upcoming tournament.
HubInit ==
    [tournaments |-> <<>>, loading |-> TRUE, creating |-> FALSE,
     server |-> <<Tournament({})>>,
     fetches |-> {Request(1)}, issued |-> 1, latest |-> <<>>,
     joins |-> {}, rpcs |-> 0, joined |-> 0, creates |-> 0,
     out |-> <<>>]

\* fetchTournaments() up to its await: one more select in flight.
IssueFetch(h) ==
    [h EXCEPT !.fetches = @ \cup {Request(h.issued + 1)}, !.issued = @ + 1,
              !.latest = <<>>]

\* fetchTournaments() after its await: setTournaments(data || []), or the
\* error toast; setLoading(false) in both cases.
DeliverFetchTo(h, f) ==
    IF f.state = "ok"
    THEN [h EXCEPT !.tournaments = f.data, !.loading = FALSE, !.fetches = @ \ {f},
                   !.out = <<"setTournaments">>]
    ELSE [h EXCEPT !.loading = FALSE, !.fetches = @ \ {f},
                   !.out = <<"toast Failed to load tournaments">>]

\* Variant: the join is sent whatever the row says.
JoinGuardNone(t) == "send"

\* handleJoinTournament's two tests of the row it was handed.
JoinGuard(t) ==
    IF UserId \in t.participants THEN "toast Already Joined"
    ELSE IF Cardinality(t.participants) >= t.max_participants THEN "toast Tournament Full"
    ELSE "send"

\* The Join button's disabled attribute.
JoinDisabled(t) ==
    \/ t.status # "upcoming"
    \/ UserId \in t.participants
    \/ Cardinality(t.participants) >= t.max_participants

\* The server answers a select: the rows as they are now, or an error.
ServeFetch(f) ==
    /\ f.state = "sent"
    /\ \E ok \in BOOLEAN :
          LET g == IF ok THEN [f EXCEPT !.state = "ok", !.data = hub.server]
                         ELSE [f EXCEPT !.state = "error"]
          IN  hub' = [hub EXCEPT !.fetches = (@ \ {f}) \cup {g},
                                 !.latest = IF f.no = hub.issued /\ ok
                                            THEN <<hub.server>> ELSE @,
                                 !.out = <<>>]
    /\ UNCHANGED <<gameVars, mgrVars, board, auth>>

\* A response reaches the component.
DeliverFetch(f) ==
    /\ f.state # "sent"
    /\ hub' = DeliverFetchTo(hub, f)
    /\ UNCHANGED <<gameVars, mgrVars, board, auth>>

\* The real-time subscription's callback: () => fetchTournaments()
RealtimeCallback ==
    /\ hub.issued < MaxFetches
    /\ hub' = [IssueFetch(hub) EXCEPT !.out = <<"fetch">>]
    /\ UNCHANGED <<gameVars, mgrVars, board, auth>>

\* Another player joins the tournament.
OtherJoins(p) ==
    /\ p \notin hub.server[1].participants
    /\ Cardinality(hub.server[1].participants) < MaxParticipants
    /\ hub' = [hub EXCEPT !.server[1].participants = @ \cup {p}, !.out = <<>>]
    /\ UNCHANGED <<gameVars, mgrVars, board, auth>>

\* handleJoinTournament(tournament) up to its await.
HandleJoinTournament(t) ==
    /\ hub.rpcs < MaxJoins
    /\ hub' = (IF JoinGuard(t) = "send"
               THEN [hub EXCEPT !.joins = @ \cup {hub.rpcs + 1}, !.rpcs = @ + 1,
                                !.out = <<"rpc join_tournament">>]
               ELSE [hub EXCEPT !.out = <<JoinGuard(t)>>])
    /\ UNCHANGED <<gameVars, mgrVars, board, auth>>

\* A click on the Join button of the displayed tournament.
ClickJoin ==
    /\ ~hub.loading
    /\ hub.tournaments # <<>>
    /\ ~JoinDisabled(hub.tournaments[1])
    /\ HandleJoinTournament(hub.tournaments[1])

\* handleJoinTournament after its await: the RPC resolved without an error
\* (the server has added the user), or with one.
JoinResolve(j, ok) ==
    /\ j \in hub.joins
    /\ ok => hub.issued < MaxFetches
    /\ hub' = (IF ok
               THEN [IssueFetch(hub) EXCEPT
                        !.server[1].participants = @ \cup {UserId},
                        !.joins = @ \ {j}, !.joined = @ + 1,
                        !.out = <<"toast Joined Tournament!", "onJoinTournament", "fetch">>]
               ELSE [hub EXCEPT !.joins = @ \ {j},
                                !.out = <<"toast Failed to join tournament">>])
    /\ UNCHANGED <<gameVars, mgrVars, board, auth>>

\* handleCreateTournament up to its await: setCreating(true), the insert.
HandleCreateTournament ==
    /\ ~hub.loading
    /\ ~hub.creating
    /\ hub.creates < MaxCreates
    /\ hub' = [hub EXCEPT !.creating = TRUE, !.creates = @ + 1,
                          !.out = <<"insert tournament">>]
    /\ UNCHANGED <<gameVars, mgrVars, board, auth>>

\* handleCreateTournament after its await: the toast and the refetch, or the
\* error toast; setCreating(false) in both cases.
CreateResolve(ok) ==
    /\ hub.creating
    /\ ok => hub.issued < MaxFetches
    /\ hub' = (IF ok
               THEN [IssueFetch(hub) EXCEPT
                        !.server = <<@[1], Tournament({})>>, !.creating = FALSE,
                        !.out = <<"toast Tournament Created!", "fetch">>]
               ELSE [hub EXCEPT !.creating = FALSE,
                                !.out = <<"toast Failed to create tournament">>])
    /\ UNCHANGED <<gameVars, mgrVars, board, auth>>

\* ---- Leaderboard: src/src/components/Leaderboard/Leaderboard.tsx ------------
Tabs == {"overall", "wins", "races", "winrate"}

\* A row of the players table.
Player(name, best, won, raced) ==
    [username |-> name, best_time |-> best, wins |-> won, total_races |-> raced]

\* The players table at the start: one player without a best time.
PlayersAtStart ==
    {Player("ann", 10, 1, 3), Player("bob", 20, 3, 4), Player("cyd", 0, 2, 2)}

\* The sign of a difference.
Sign(d) == IF d < 0 THEN 0 - 1 ELSE IF d > 0 THEN 1 ELSE 0

\* The four comparators of fetchLeaderboard, by their sign.  (a.best_time ||
\* Infinity) - (b.best_time || Infinity) is NaN for two missing times, which
\* sort takes as 0.  The win rates wins / total_races * 100 (0 without races)
\* are compared by cross-multiplying.
Compare(tab, a, b) ==
    CASE tab = "overall" ->
           IF a.best_time = 0 /\ b.best_time = 0 THEN 0
           ELSE IF a.best_time = 0 THEN 1
           ELSE IF b.best_time = 0 THEN 0 - 1
           ELSE Sign(a.best_time - b.best_time)
      [] tab = "wins" -> Sign(b.wins - a.wins)
      [] tab = "races" -> Sign(b.total_races - a.total_races)
      [] tab = "winrate" ->
           IF a.total_races = 0 /\ b.total_races = 0 THEN 0
           ELSE IF a.total_races = 0 THEN Sign(b.wins)
           ELSE IF b.total_races = 0 THEN Sign(0 - a.wins)
           ELSE Sign(b.wins * a.total_races - a.wins * b.total_races)

\* Array.prototype.sort with comparator Compare(tab, _, _): a stable sort.
RECURSIVE SortBy(_, _)
SortBy(tab, list) ==
    IF list = <<>> THEN <<>>
    ELSE LET rest == SortBy(tab, Tail(list))
             x == Head(list)
             k == Cardinality({i \in 1..Len(rest) : Compare(tab, rest[i], x) < 0})
         IN  SubSeq(rest, 1, k) \o <<x>> \o SubSeq(rest, k + 1, Len(rest))

\* select('*').order('best_time', {ascending: true}).limit(100): the rows by
\* ascending best_time as stored, a zero first.
RECURSIVE ByBestTime(_)
ByBestTime(rows) ==
    IF rows = {} THEN <<>>
    ELSE LET r == CHOOSE x \in rows : \A y \in rows :
                     \/ x.best_time < y.best_time
                     \/ x.best_time = y.best_time /\ x.wins >= y.wins
         IN  <<r>> \o ByBestTime(rows \ {r})

\* A getLeaderboard call before its response, with the selectedTab of the
\* render whose effect made it.
BoardRequest(n, tab) == [no |-> n, tab |-> tab, state |-> "sent", data |-> <<>>]

\* The component after mount: useState([]), loading, the overall tab, and the
\* effect's first fetchLeaderboard() in flight.
BoardInit ==
    [topPlayers |-> <<>>, loading |-> TRUE, selectedTab |-> "overall",
     players |-> PlayersAtStart, races |-> 0,
     fetches |-> {BoardRequest(1, "overall")}, issued |-> 1, out |-> <<>>]

\* A click on another tab: setSelectedTab, and the effect of the new render
\* calls fetchLeaderboard(), which starts with setLoading(true).  The tabs
\* are rendered only while loading is false.
SelectTab(tab) ==
    /\ ~board.loading
    /\ tab # board.selectedTab
    /\ board.issued < MaxBoardFetches
    /\ board' = [board EXCEPT !.selectedTab = tab, !.loading = TRUE,
                              !.fetches = @ \cup {BoardRequest(board.issued + 1, tab)},
                              !.issued = @ + 1, !.out = <<"fetch">>]
    /\ UNCHANGED <<gameVars, mgrVars, hub, auth>>

\* The server answers getLeaderboard(100): the rows, or an error.
ServeBoard(f) ==
    /\ f.state = "sent"
    /\ \E ok \in BOOLEAN :
          board' = [board EXCEPT
                      !.fetches = (@ \ {f}) \cup
                         {IF ok THEN [f EXCEPT !.state = "ok",
                                               !.data = ByBestTime(board.players)]
                                ELSE [f EXCEPT !.state = "error"]},
                      !.out = <<>>]
    /\ UNCHANGED <<gameVars, mgrVars, hub, auth>>

\* fetchLeaderboard after its await: the rows sorted by the tab of the call
\* and shown, or the error logged; setLoading(false) in both cases.
DeliverBoard(f) ==
    /\ f.state # "sent"
    /\ board' = (IF f.state = "ok"
                 THEN [board EXCEPT !.topPlayers = SortBy(f.tab, f.data),
                                    !.loading = FALSE, !.fetches = @ \ {f},
                                    !.out = <<"setTopPlayers">>]
                 ELSE [board EXCEPT !.loading = FALSE, !.fetches = @ \ {f},
                                    !.out = <<"console.error">>])
    /\ UNCHANGED <<gameVars, mgrVars, hub, auth>>

\* A race is recorded for a player, won or not, with or without a new best
\* time.
RaceRecorded(p, won, best) ==
    /\ p \in board.players
    /\ board.races < MaxRaces
    /\ best \in {p.best_time, 5}
    /\ board' = [board EXCEPT
                    !.players = (@ \ {p}) \cup
                       {Player(p.username, best, p.wins + (IF won THEN 1 ELSE 0),
                               p.total_races + 1)},
                    !.races = @ + 1, !.out = <<>>]
    /\ UNCHANGED <<gameVars, mgrVars, hub, auth>>

\* ---- AuthForm: src/src/components/Auth/AuthForm.tsx -------------------------
Handlers == {"handleEmailSignIn", "handleEmailSignUp", "handleGoogleSignIn"}

\* How an awaited auth call ends: resolved without an error, resolved with
\* one, or rejected.
Outcomes == {"ok", "error", "throw"}

\* The titles of the toasts of each handler.
FailedTitle(h) ==
    CASE h = "handleEmailSignIn" -> "Sign In Failed"
      [] h = "handleEmailSignUp" -> "Sign Up Failed"
      [] h = "handleGoogleSignIn" -> "Google Sign In Failed"

SuccessTitle(h) ==
    CASE h = "handleEmailSignIn" -> "Welcome Back!"
      [] h = "handleEmailSignUp" -> "Account Created!"
      [] h = "handleGoogleSignIn" -> "Welcome!"

Toast(title) == [type |-> "toast", title |-> title]
AuthSuccess == [type |-> "onAuthSuccess", title |-> ""]

\* Variant: the handler does not test the error of the resolved call.
HandlerBodyNoErrorTest(h, outcome) ==
    IF outcome = "throw" THEN <<Toast("Error")>>
    ELSE <<Toast(SuccessTitle(h)), AuthSuccess>>

\* What a handler does after its await, inside try / catch.
HandlerBody(h, outcome) ==
    CASE outcome = "error" -> <<Toast(FailedTitle(h))>>
      [] outcome = "ok" -> <<Toast(SuccessTitle(h)), AuthSuccess>>
      [] outcome = "throw" -> <<Toast("Error")>>

\* The form after mount.
AuthInit ==
    [loading |-> FALSE, formData |-> [email |-> "", password |-> ""],
     pending |-> "none", sent |-> [email |-> "", password |-> ""],
     calls |-> 0, out |-> <<>>]

\* handleInputChange: setFormData({...formData, [name]: value})
HandleInputChange(field, value) ==
    /\ ~auth.loading
    /\ auth.formData[field] # value
    /\ auth' = [auth EXCEPT !.formData[field] = value, !.out = <<>>]
    /\ UNCHANGED <<gameVars, mgrVars, hub, board>>

\* A handler up to its await: setLoading(true) and the auth call, with the
\* form's email and password for the two email handlers.  The submit buttons
\* and the Google button are disabled while loading.
HandleAuth(h) ==
    /\ ~auth.loading
    /\ auth.calls < MaxAuthCalls
    /\ auth' = [auth EXCEPT !.loading = TRUE, !.pending = h, !.calls = @ + 1,
                            !.sent = IF h = "handleGoogleSignIn"
                                     THEN [email |-> "", password |-> ""]
                                     ELSE auth.formData,
                            !.out = <<>>]
    /\ UNCHANGED <<gameVars, mgrVars, hub, board>>

\* The handler after its await: the body, then finally setLoading(false).
AuthSettle(outcome) ==
    /\ auth.pending # "none"
    /\ auth' = [auth EXCEPT !.loading = FALSE, !.pending = "none",
                            !.out = HandlerBody(auth.pending, outcome)]
    /\ UNCHANGED <<gameVars, mgrVars, hub, board>>

\* ---- specifications --------------------------------------------------------
\* The component right after mount: the game is built, create() has not run.
InitWith(n, target) ==
    /\ gameMode \in GameModes
    /\ isPaused = FALSE
    /\ gameLoaded = FALSE
    /\ sameRender = TRUE
    /\ isPausedSeen = FALSE
    /\ raceStarted = FALSE
    /\ raceTime = 0
    /\ checkpoints = <<>>
    /\ aiCars = <<>>
    /\ currentCheckpoint = 0
    /\ lapCount = 0
    /\ maxLaps = target
    /\ numPositions = n
    /\ sceneStatus = "booting"
    /\ closure = 1
    /\ session = 0
    /\ timers = {}
    /\ now = 0
    /\ inside = 0
    /\ entries = 0
    /\ finishCount = 0
    /\ startCount = 0
    /\ createdAt = 0
    /\ occAdvances = 0
    /\ restarts = 0
    /\ modeChanges = 0
    /\ emitted = <<>>
    /\ last = NoOp
    /\ rotation = 0
    /\ velocity = ZeroVelocity
    /\ socket = (IF gameMode = "multiplayer" THEN Connect("null") ELSE "null")
    /\ lapToasts = 0
    /\ finishToasts = 0
    /\ finishSends = 0
    /\ positionSent = NoSend
    /\ aiStep = NoAi
    /\ tries = 0
    /\ orphans = <<>>
    /\ reconnectAttempts = 0
    /\ callResult = NoCall
    /\ hub = HubInit
    /\ board = BoardInit
    /\ auth = AuthInit

Init == InitWith(TrackLength, LapTarget)

Next ==
    \/ Create
    \/ Overlap
    \/ \E p \in 1..numPositions : Enter(p)
    \/ Leave
    \/ \E t \in timers : TimerFire(t)
    \/ Frame(NoKeys)
    \/ HandlePause
    \/ HandleRestart
    \/ Rerender
    \/ \E m \in GameModes : ModeChange(m)

Spec == Init /\ [][Next]_vars

\* The same scene over a track of any length and any lap target.
InitTrack == \E n \in 1..MaxTrack : \E target \in 1..MaxTarget : InitWith(n, target)

SpecTrack == InitTrack /\ [][Next]_vars

\* The race with a game server that accepts and drops the connection.
NextNet ==
    \/ Next
    \/ SocketOpen
    \/ SocketClose

SpecNet == Init /\ [][NextNet]_vars

\* The component with the player at the cursor keys, driving clear of the
\* checkpoint regions: every operation but the overlap events, with any keys
\* held on each frame.
NextDrive ==
    \/ Create
    \/ \E t \in timers : TimerFire(t)
    \/ \E keys \in Keys : FrameTo(keys, MaxDriveClock)
    \/ HandlePause
    \/ HandleRestart
    \/ Rerender
    \/ \E m \in GameModes : ModeChange(m)

SpecDrive == Init /\ [][NextDrive]_vars

\* The SocketManager alone, called in any order against a server that accepts,
\* refuses and drops connections.
NextSocket ==
    \/ ConnectCall
    \/ DisconnectCall
    \/ \E op \in SendOps : SendCall(op)
    \/ \E op \in SubscribeOps : SubscribeCall(op)
    \/ SocketOpen
    \/ SocketClose
    \/ SocketError
    \/ \E i \in 1..Len(orphans) : OrphanOpen(i)
    \/ \E i \in 1..Len(orphans) : OrphanClose(i)
    \/ \E i \in 1..Len(orphans) : OrphanError(i)

SpecSocket == Init /\ [][NextSocket]_vars

\* The TournamentHub at the screen, against a server that answers in any
\* order.
NextHub ==
    \/ \E f \in hub.fetches : ServeFetch(f)
    \/ \E f \in hub.fetches : DeliverFetch(f)
    \/ RealtimeCallback
    \/ \E p \in Others : OtherJoins(p)
    \/ ClickJoin
    \/ \E j \in hub.joins : \E ok \in BOOLEAN : JoinResolve(j, ok)
    \/ HandleCreateTournament
    \/ \E ok \in BOOLEAN : CreateResolve(ok)

SpecHub == Init /\ [][NextHub]_vars

\* The Leaderboard at the screen, against a server whose table changes.
NextBoard ==
    \/ \E tab \in Tabs : SelectTab(tab)
    \/ \E f \in board.fetches : ServeBoard(f)
    \/ \E f \in board.fetches : DeliverBoard(f)
    \/ \E p \in board.players : \E won \in BOOLEAN : \E best \in {5, p.best_time} :
          RaceRecorded(p, won, best)

SpecBoard == Init /\ [][NextBoard]_vars

\* The AuthForm at the screen, against an auth service that answers either
\* way or fails.
NextAuth ==
    \/ \E value \in {"", "racer@example.com"} : HandleInputChange("email", value)
    \/ \E value \in {"", "secret"} : HandleInputChange("password", value)
    \/ \E h \in Handlers : HandleAuth(h)
    \/ \E outcome \in Outcomes : AuthSettle(outcome)

SpecAuth == Init /\ [][NextAuth]_vars

\* The same with handleJoinTournament handed any row.
NextHubCalls ==
    \/ NextHub
    \/ \E t \in Tournaments : HandleJoinTournament(t)

SpecHubCalls == Init /\ [][NextHubCalls]_vars

\* The same with frames that take SlowFrame times as long (a slow machine, a
\* busy tab): Phaser passes the longer delta to update.
NextTicks ==
    \/ NextDrive
    \/ \E keys \in Keys : Tick(keys, SlowFrame * DeltaMs, MaxDriveClock)

SpecTicks == Init /\ [][NextTicks]_vars

\* The same scene with maxLaps or checkpointPositions set to a value that
\* makes no race: no lap to run, or no checkpoint to expect.  Nothing in the
\* component or in create() tests either.
InitConfig ==
    \E n \in 0..1 : \E target \in (0 - 1)..1 :
        /\ n = 0 \/ target <= 0
        /\ InitWith(n, target)

SpecConfig == InitConfig /\ [][Next]_vars

\* ==== properties ============================================================
\* The race-result records among the events of one step.
GameEndRecords(ev) == {ev[i] : i \in {j \in 1..Len(ev) : ev[j].type = "gameEnd"}}

\* C1: once create() has built a scene, the expected checkpoint index is a
\* valid index of the checkpoints array: 0 <= currentCheckpoint < N with
\* N = checkpoints.length, in every reachable state (after ticks, overlaps,
\* pause/resume, finish and restart).
CheckpointIndexInRange ==
    sceneStatus # "booting" =>
        (0 <= currentCheckpoint /\ currentCheckpoint < Len(checkpoints))

\* The index stands at the last checkpoint of the track after a restart has
\* appended a second batch of rectangles.
CheckpointIndexInRangeWitness ==
    /\ restarts > 0
    /\ Len(checkpoints) = 2 * numPositions
    /\ currentCheckpoint = numPositions - 1

\* C2: finishRace runs (and the race-result record reaches onGameEnd) at most
\* once for one run of the race counters, whatever overlaps follow the lap
\* target being reached.
FinishedAtMostOnce == finishCount <= 1

\* C3: for lap target L and checkpoint count N, finishRace has run iff L*N
\* in-order checkpoint entries have been made (so it first runs on exactly the
\* (L*N)-th and not before), and the record it then hands to onGameEnd carries
\* laps = L.
FinishOnLNthEntry ==
    /\ (finishCount > 0) <=> (entries >= maxLaps * numPositions)
    /\ \A r \in GameEndRecords(emitted) :
           finishCount = 1 => (r.laps = maxLaps /\ entries = maxLaps * numPositions)

\* The step that made the (L*N)-th entry has just delivered the record, on a
\* track of more than one checkpoint and a target of more than one lap.
FinishOnLNthEntryWitness ==
    /\ numPositions > 1
    /\ maxLaps > 1
    /\ finishCount = 1
    /\ entries = maxLaps * numPositions
    /\ GameEndRecords(emitted) # {}

\* C4 as stated: with N = 5 and L = 3 the finish comes on the 25th in-order
\* entry and not before, and 25 entries yield lap count 3.
ScenarioFinishOn25th ==
    /\ finishCount > 0 => entries >= 25
    /\ entries = 25 => lapCount = 3

\* C4 amended: with N = 5 and L = 3 (the shipped track) the finish comes on
\* the 15th in-order entry (three passes over 0,1,2,3,4) and not before, and
\* 15 entries yield lap count 3.
ScenarioFinishOn15th ==
    /\ finishCount > 0 => entries >= 15
    /\ entries = 15 => (lapCount = 3 /\ finishCount = 1)

\* The 15th entry has just been made and finished the race.
ScenarioFinishOn15thWitness ==
    /\ numPositions = 5
    /\ maxLaps = 3
    /\ entries = 15
    /\ last.op = "Overlap"
    /\ GameEndRecords(emitted) # {}

\* C5: the lap count changes only by +1 and only in an overlap step that takes
\* the expected index from N-1 to 0 (N = checkpoints.length); ticks,
\* out-of-order overlaps, pause and the timer leave it alone.  A step that
\* discards the race (restart, a new game for another mode) is not a step of
\* the race.
LapOnlyOnWrap ==
    [][lapCount' # lapCount =>
          \/ restarts' # restarts
          \/ closure' # closure
          \/ /\ lapCount' = lapCount + 1
             /\ currentCheckpoint = Len(checkpoints) - 1
             /\ currentCheckpoint' = 0
             /\ last'.op = "Overlap"]_vars

\* A lap has just been counted by an overlap at the last checkpoint.
LapOnlyOnWrapWitness ==
    /\ last.op = "Overlap"
    /\ last.expected = Len(checkpoints) - 1
    /\ last.index = last.expected
    /\ currentCheckpoint = 0
    /\ lapCount = 2

\* C6: in-order entries take the expected index through 0,1,...,N-1,0,1,...
\* and count one lap per N entries: after k in-order entries the index is
\* k mod N and the lap count is k div N.
DesignedOrderCycle ==
    /\ currentCheckpoint = entries % numPositions
    /\ lapCount = entries \div numPositions

\* Two full cycles and one more entry on a track of at least two checkpoints.
DesignedOrderCycleWitness ==
    /\ numPositions >= 2
    /\ entries = 2 * numPositions + 1
    /\ currentCheckpoint = 1
    /\ lapCount = 2

\* C7: an overlap with a checkpoint whose index is not the expected one
\* changes none of expected index, lap count, race state and race time, and
\* emits nothing.
OutOfOrderNoOp ==
    [][(last'.op = "Overlap" /\ last'.index # currentCheckpoint) =>
          /\ UNCHANGED <<currentCheckpoint, lapCount, raceStarted, raceTime,
                         finishCount, entries>>
          /\ emitted' = <<>>]_vars

\* The callback has just run for a checkpoint that was not the expected one,
\* during the race.
OutOfOrderNoOpWitness ==
    /\ last.op = "Overlap"
    /\ last.index # last.expected
    /\ raceStarted
    /\ currentCheckpoint > 0

CountdownStartsOnce ==
    [][(~raceStarted /\ raceStarted') =>
          (startCount = 0 /\ now >= createdAt + CountdownMs)]_vars

\* C10: an overlap while the race is not running (before the countdown has
\* elapsed, or after the finish) changes neither expected index nor lap count
\* and emits nothing.
OverlapOnlyWhileRacing ==
    [][(last'.op = "Overlap" /\ ~raceStarted) =>
          /\ currentCheckpoint' = currentCheckpoint
          /\ lapCount' = lapCount
          /\ emitted' = <<>>]_vars

\* C11: while the game is paused (from a pause to the following resume) the
\* session makes no transition: raceStarted, the expected index and the lap
\* count stay as they are and finishRace does not run.
NoTransitionWhilePaused ==
    [][(isPaused /\ sceneStatus = "paused" /\ isPaused' /\ sceneStatus' = "paused") =>
          UNCHANGED <<raceStarted, currentCheckpoint, lapCount, finishCount>>]_vars

\* C12: from a pause at a tick until the resume, the resume step included, the
\* expected index, the lap count and the elapsed race time keep the values
\* they had when the pause began, so that ticking resumes from those values
\* (leaving the race by a restart or a change of game mode is not a resume).
PauseFreezesRace ==
    [][(isPaused /\ sceneStatus = "paused" /\ restarts' = restarts /\ closure' = closure) =>
          UNCHANGED <<currentCheckpoint, lapCount, raceTime>>]_vars

\* The race was started, then paused inside a checkpoint region, and wall-clock
\* time has passed since the pause.
PauseFreezesRaceWitness ==
    /\ isPaused /\ sceneStatus = "paused"
    /\ raceStarted /\ ~isPausedSeen
    /\ inside = currentCheckpoint + 1
    /\ now > createdAt + CountdownMs
    /\ raceTime < now - (createdAt + CountdownMs)

\* C13: when a counted lap brings the lap count to the lap target (or beyond
\* it), the step emits, in this order, the lap toast of that lap, the finish
\* toast and the race-result record to onGameEnd, all three made at the same
\* lap count and race time, which are those of the state the step ends in;
\* the finish toast and the record are emitted in no other way.
FinishEventsInOrder ==
    LET types == {emitted[i].type : i \in 1..Len(emitted)}
        finishing == /\ emitted # <<>>
                     /\ emitted[1].type = "lapToast"
                     /\ lapCount >= maxLaps
    IN  /\ (types \cap {"finishToast", "gameEnd"} # {}) => finishing
        /\ finishing =>
              /\ Len(emitted) >= 3
              /\ SubSeq(emitted, 1, 3) =
                    <<Event("lapToast", lapCount, ToFixed2(raceTime)),
                      Event("finishToast", lapCount, ToFixed2(raceTime)),
                      Event("gameEnd", lapCount, raceTime)>>
              /\ \A i \in 4..Len(emitted) : emitted[i].type = "raceFinishSend"
              /\ ~raceStarted

\* The step that completed the last lap of a race with some time on its clock.
FinishEventsInOrderWitness ==
    /\ Len(emitted) >= 3
    /\ emitted[3].type = "gameEnd"
    /\ lapCount = maxLaps
    /\ raceTime > 0

\* C14: the notification sink is called once per lap completion and once for
\* the race finish: the lap toasts issued equal the lap count, each carrying
\* the number and the race time of its lap, and the finish toast has been
\* issued once when the lap target is reached and not before.
NotifiedOncePerLapAndFinish ==
    /\ lapToasts = lapCount
    /\ \A i \in 1..Len(emitted) :
          emitted[i].type = "lapToast" =>
              emitted[i] = Event("lapToast", lapCount, ToFixed2(raceTime))
    /\ finishToasts = (IF lapCount >= maxLaps THEN 1 ELSE 0)

RestartGivesFreshSession ==
    [][(restarts' # restarts /\ sceneStatus # "booting") =>
          /\ ~raceStarted'
          /\ currentCheckpoint' = 0
          /\ lapCount' = 0
          /\ raceTime' = 0
          /\ Len(checkpoints') = numPositions]_vars

OneRaceFinishSend ==
    /\ finishSends = (IF gameMode = "multiplayer" /\ lapCount >= maxLaps THEN 1 ELSE 0)
    /\ \A i \in 1..Len(emitted) :
          emitted[i].type = "raceFinishSend" =>
              /\ gameMode = "multiplayer"
              /\ emitted[i] = Event("raceFinishSend", lapCount, raceTime)

\* C20: a frame with neither up nor down held leaves the player's velocity as
\* the physics step left it, whatever the turn keys, and a frame with no key
\* held leaves the heading unchanged as well.
CoastKeepsVelocity ==
    [][\A keys \in Keys :
          (FrameTo(keys, MaxDriveClock) /\ SceneActive(sceneStatus)) =>
              /\ (~keys.up /\ ~keys.down) => velocity' = WorldStep(velocity, DeltaMs)
              /\ keys = NoKeys => rotation' = rotation]_vars

\* A racing frame with only a turn key held has turned a moving car.
CoastKeepsVelocityWitness ==
    /\ raceStarted /\ raceTime > DeltaMs
    /\ velocity.speed # 0
    /\ velocity.drag > 0
    /\ rotation # velocity.heading

\* C21: whatever the four keys on a racing tick, the velocity update() leaves
\* the player with has magnitude at most the maximum speed; with up and not
\* down it is the thrust along the heading, and with down it is the brake
\* magnitude along the reverse heading.
SpeedWithinCap ==
    [][\A keys \in Keys :
          (/\ FrameTo(keys, MaxDriveClock)
           /\ SceneActive(sceneStatus)
           /\ UpdateGate(raceStarted, isPausedSeen)) =>
              /\ Magnitude(velocity') <= MaxVelocity
              /\ (keys.up /\ ~keys.down) =>
                    /\ velocity' = Velocity(Thrust, rotation')
                    /\ Magnitude(velocity') = Thrust
              /\ keys.down =>
                    /\ velocity' = Velocity(0 - Brake, rotation')
                    /\ Magnitude(velocity') = Brake /\ velocity'.speed < 0]_vars

\* The car was braked on a tick on which it was also turned.
SpeedWithinCapWitness ==
    /\ raceStarted
    /\ rotation # 0
    /\ velocity = Velocity(0 - Brake, rotation)

\* C22: a racing tick with one turn key held changes the heading by the turn
\* rate times the tick's delta, to the left negative and to the right positive
\* (the rate being one step of 0.1 rad per frame of DeltaMs), so that a slow
\* frame turns the car as far as the usual frames it stands for.
TurnByRateTimesDelta ==
    [][\A keys \in Keys : \A delta \in {DeltaMs, SlowFrame * DeltaMs} :
          (/\ Tick(keys, delta, MaxDriveClock)
           /\ SceneActive(sceneStatus)
           /\ UpdateGate(raceStarted, isPausedSeen)
           /\ keys.left # keys.right) =>
              (rotation' - rotation) * DeltaMs = (IF keys.right THEN delta ELSE 0 - delta)]_vars

\* The aiCars entries of the running scene, by 0-based index in aiCars.
LiveAiIndices == {i - 1 : i \in {j \in 1..Len(aiCars) : aiCars[j].scene = session}}

\* C23: in single-player mode the live AI cars of a created scene are the
\* three instances given the speeds 200, 220 and 240, after a restart too; and
\* a racing tick in that mode drives every one of them without error, each at
\* the checkpoint of the expected index and at 200 + 20 * i for instance i.
AiCarsAsDesigned ==
    /\ (gameMode = "single" /\ sceneStatus # "booting") =>
          {AiSpeed(i) : i \in LiveAiIndices} =
             {AiBaseSpeed + k * AiSpeedStep : k \in 0..(AiCount - 1)}
    /\ aiStep.ran =>
          /\ ~aiStep.error
          /\ {a.car : a \in {aiStep.set[i] : i \in 1..Len(aiStep.set)}} =
                {aiCars[i + 1] : i \in LiveAiIndices}
          /\ Len(aiStep.set) = AiCount
          /\ \A i \in 1..Len(aiStep.set) :
                /\ aiStep.set[i].target.pos = currentCheckpoint + 1
                /\ aiStep.set[i].speed = AiBaseSpeed + (i - 1) * AiSpeedStep

\* C24: the SocketManager holds at most one socket that is open or connecting,
\* whatever the order of connect() calls and of the sockets' connect,
\* connect_error and disconnect events.
AtMostOneSocket == AliveSockets <= 1

\* C25: a send or subscribe call made while the manager has no socket (before
\* connect() or after disconnect()) raises no error, does nothing and leaves
\* the manager's state as it was; disconnect() leaves the manager not
\* connected, and from there only a connect() call changes the socket, to one
\* that is connecting, so that connected turns true only by the 'connect'
\* event of a socket made by a later connect().
NoSocketNoEffect ==
    [][/\ \A op \in SendOps \cup SubscribeOps :
             ((SendCall(op) \/ SubscribeCall(op)) /\ socket = "null") =>
                /\ callResult'.effect = "none"
                /\ UNCHANGED <<socket, tries, orphans, reconnectAttempts>>
       /\ DisconnectCall => (socket' = "null" /\ ~Connected(socket'))
       /\ socket = "null" =>
             \/ socket' = "null"
             \/ ConnectCall /\ socket' = "connecting"
       /\ (~Connected(socket) /\ Connected(socket')) =>
             (SocketOpen /\ socket = "connecting")]_vars

\* In multiplayer mode, where the canvas had called connect(), finishRace was
\* called after a disconnect() and did nothing, with a replaced socket still
\* alive.
NoSocketNoEffectWitness ==
    /\ gameMode = "multiplayer"
    /\ socket = "null"
    /\ orphans # <<>>
    /\ callResult = [op |-> "finishRace", effect |-> "none"]

\* C26: handleJoinTournament sends the join_tournament RPC exactly when, in
\* the row it was handed, the user is not a participant and the participants
\* are fewer than max_participants; when the user has joined already or the
\* tournament is full it sends nothing, does not call onJoinTournament and
\* does not refetch.
JoinOnlyWhenOpen ==
    [][\A t \in Tournaments :
          HandleJoinTournament(t) =>
             LET open == /\ UserId \notin t.participants
                         /\ Cardinality(t.participants) < t.max_participants
             IN  /\ open <=> hub'.rpcs = hub.rpcs + 1
                 /\ open <=> hub'.out = <<"rpc join_tournament">>
                 /\ ~open =>
                       /\ hub'.rpcs = hub.rpcs /\ hub'.joins = hub.joins
                       /\ hub'.joined = hub.joined
                       /\ hub'.issued = hub.issued /\ hub'.fetches = hub.fetches
                       /\ hub'.tournaments = hub.tournaments]_vars

\* The handler was handed a full tournament the user has not joined, after it
\* had sent one join before.
JoinOnlyWhenOpenWitness ==
    /\ hub.out = <<"toast Tournament Full">>
    /\ hub.rpcs = 1
    /\ hub.joined = 0

\* C27: for the user and the tournament at most one join_tournament RPC is
\* in flight, and onJoinTournament is called at most once: a second click
\* before the first RPC has resolved sends nothing.
OneJoinRpc ==
    /\ Cardinality(hub.joins) <= 1
    /\ hub.joined <= 1

\* C28: once every fetchTournaments call has settled, the displayed list is
\* not older than the answer to the call issued last: it has every
\* tournament and every participant of that answer.
LatestFetchShown ==
    (hub.fetches = {} /\ hub.latest # <<>>) =>
       /\ Len(hub.latest[1]) <= Len(hub.tournaments)
       /\ \A i \in 1..Len(hub.latest[1]) :
             hub.latest[1][i].participants \subseteq hub.tournaments[i].participants

\* The order a tab asks for between two rows, a before b.
MayPrecede(tab, a, b) ==
    CASE tab = "overall" ->
           \/ b.best_time = 0
           \/ a.best_time # 0 /\ a.best_time <= b.best_time
      [] tab = "wins" -> a.wins >= b.wins
      [] tab = "races" -> a.total_races >= b.total_races
      [] tab = "winrate" ->
           (IF a.total_races = 0 THEN 0 ELSE a.wins * 100 * b.total_races) >=
           (IF b.total_races = 0 THEN 0 ELSE b.wins * 100 * a.total_races)

AuthSuccessCalls(out) == Cardinality({i \in 1..Len(out) : out[i].type = "onAuthSuccess"})

\* C30: when a handler's auth call settles, onAuthSuccess is called exactly
\* once if it resolved without an error and not at all if it resolved with an
\* error or threw, for each of the three handlers; loading is false
\* afterwards, and no other step calls onAuthSuccess.
AuthSuccessOnlyOnOk ==
    [][/\ \A outcome \in Outcomes :
             AuthSettle(outcome) =>
                /\ AuthSuccessCalls(auth'.out) = (IF outcome = "ok" THEN 1 ELSE 0)
                /\ ~auth'.loading
       /\ (\A outcome \in Outcomes : ~AuthSettle(outcome)) =>
             AuthSuccessCalls(auth'.out) = 0
       /\ (auth.loading /\ ~auth'.loading) => \E outcome \in Outcomes : AuthSettle(outcome)]_vars

\* The third attempt, a sign-up with the form filled in, resolved without an
\* error and called onAuthSuccess.
AuthSuccessOnlyOnOkWitness ==
    /\ auth.calls = 3
    /\ ~auth.loading
    /\ auth.sent = [email |-> "racer@example.com", password |-> "secret"]
    /\ auth.out = <<Toast("Account Created!"), AuthSuccess>>

====
